---- MODULE Spec2Model ----
(***************************************************************************)
(* Model of spotbot's Pololu Maestro driver                                *)
(* (src/spotbot/Servo/servo_maestro.py, class ServoController).            *)
(*                                                                         *)
(* Microsecond quantities are Python floats in the source.  The model      *)
(* holds them as integers counting sixteenths of a microsecond ("ticks"),  *)
(* so that int(round(4 * t)) has fractions and ties to round and           *)
(* target / 4 is exact.  Quarter-microsecond targets, bytes and channel    *)
(* numbers are plain integers.  Python's None is the empty tuple and a     *)
(* present value v is the one-element tuple <<v>>.                         *)
(***************************************************************************)
EXTENDS Integers, Sequences, FiniteSets, TLC

\* ---------------------------------------------------------------- constants

POLOLU_PROTOCOL == 170
DEFAULT_DEVICE_NUMBER == 12
SET_TARGET == 4
SET_SPEED == 7
SET_ACCELERATION == 9
GET_POSITION == 16
GET_ERRORS == 33
GO_HOME == 34
STOP_SCRIPT == 36
GET_SCRIPT_STATUS == 46
RESTART_SCRIPT_AT_SUBROUTINE == 39
RESTART_SCRIPT_AT_SUBROUTINE_WITH_PARAMETER == 40
SET_PWM == 10
GET_MOVING_STATE == 19
SET_MULTIPLE_TARGETS == 31

\* [0] * 24, [None] * 24: the number of channels of the controller
NumChannels == 24
\* _get_lsb_msb: the largest 14-bit value
MaxValue == 16383
\* target / 4 and 4 * target_us: quarter-microseconds per microsecond
QuartersPerUs == 4
\* set_pwm: 48 * on_time_us, the command uses 1/48th us intervals
PwmTicksPerUs == 48

\* ticks (sixteenths of a microsecond) per quarter-microsecond and per microsecond
QTicks == QuartersPerUs
US == QuartersPerUs * QTicks

Channels == 0 .. (NumChannels - 1)

None == << >>
Some(v) == <<v>>
NoError == "None"

\* ------------------------------------------------------------------- bounds

\* number of driver calls in one run
MaxOps == 2

\* the menus open at once
MaxDepth == 2

\* channels the calls are made on
ChannelInputs == {0, 1}
\* set_range arguments (microseconds, in ticks): None, 0 and real limits,
\* one of them off the quarter-microsecond grid, one pair in reverse order
RangeInputs ==
    { <<None, None>>, <<Some(0), Some(0)>>, <<Some(0), Some(2000 * US)>>,
      <<Some(1000 * US), Some(2000 * US)>>, <<Some(1000 * US), None>>,
      <<None, Some(2000 * US)>>, <<Some(1000 * US + 1), Some(2000 * US)>>,
      <<Some(2000 * US), Some(1000 * US)>> }
\* set_target arguments (quarter-microseconds)
TargetInputs == {0, 2000, 6000, 10000, 16384, -4}
\* set_target_us arguments (ticks): 1500.125 us and 1500.375 us are ties of
\* round(4 * t); 1000.0625 us rounds below the off-grid limit; 4096 us does
\* not fit 14 bits
UsInputs ==
    {0, 500 * US, 1000 * US + 1, 1500 * US, 1500 * US + 2, 1500 * US + 6,
     2500 * US, 4096 * US}
\* set_targets_us channels and values (ticks)
BatchChannelInputs == ChannelInputs
BatchUsInputs == {1500 * US, 2500 * US}
\* bytes the controller may answer with
ByteInputs == {0, 1, 200}
\* set_pwm arguments (ticks)
PwmInputs == {0, 10 * US, 400 * US}
\* BCM pin numbers a Relay is made for
GpioInputs == {17, 22, 27}
\* speeds, accelerations and script parameters
ValueInputs == {0, 300, 16384}
SubroutineInputs == {0, 1}
\* response bytes of a position query: 112 + 23 * 256 is 6000 quarter-us
MovingByteInputs == {23, 112}
\* channel arguments on both sides of the ends of 0 .. 23
ChannelProbeInputs == {-1, 0, NumChannels}
\* the ranges a controller is given before it is closed
CloseRangeInputs == {<<None, None>>, <<Some(1000 * US), Some(2000 * US)>>}

\* ------------------------------------------------------------ pure helpers

\* int(round(n / d)) for d > 0: Python 3 rounds halves to the even integer
Round(n, d) ==
    LET q == n \div d
        r == n % d
    IN  IF 2 * r < d THEN q
        ELSE IF 2 * r > d THEN q + 1
        ELSE IF q % 2 = 0 THEN q ELSE q + 1

\* the assert of _get_lsb_msb
Encodable(value) == 0 <= value /\ value <= MaxValue

\* _get_lsb_msb(value): 7 bits for the lsb, the next 7 bits for the msb
\* _get_lsb_msb cutting the value into 8-bit bytes
get_lsb_msb_8bit(value) == <<value % 256, (value \div 256) % 256>>

\* _get_lsb_msb with a shift by 8 bits
get_lsb_msb_Shift8(value) == <<value % 128, (value \div 256) % 128>>

get_lsb_msb(value) == <<value % 128, (value \div 128) % 128>>

\* a truth value that takes only None for false
Truthy_NoneOnly(x) == x # None

\* Python truth value of a limit: None and 0 are false
Truthy(x) == x # None /\ x[1] # 0

\* the tuples of 0 .. n elements of S
SeqsUpTo(S, n) == UNION {[1 .. k -> S] : k \in 0 .. n}

\* a Mapping argument: entries <<channel, target_us>> in the mapping's iteration
\* order (a dict iterates in insertion order), no channel twice
IsMapping(m) == \A i, j \in 1 .. Len(m) : m[i][1] = m[j][1] => i = j
Mappings(chans, values) ==
    {m \in SeqsUpTo(chans \X values, Cardinality(chans)) : IsMapping(m)}
Keys(m) == {m[i][1] : i \in 1 .. Len(m)}
Lookup(m, channel) == (CHOOSE i \in 1 .. Len(m) : m[i][1] = channel)

BatchInputs == Mappings(BatchChannelInputs, BatchUsInputs)
\* what a query is answered with before the read timeout, when its request
\* was written (w = 1); nothing is read when the write failed (w = 0)
ResponseInputs(w, byte_count) ==
    IF w = 0 THEN {<< >>} ELSE SeqsUpTo(ByteInputs, byte_count)

\* ------------------------------------------------------------------- state

VARIABLES
    is_micro,          \* self.is_micro
    targets_us,        \* self.targets_us (ticks)
    min_targets_us,    \* self.min_targets_us (None or ticks)
    max_targets_us,    \* self.max_targets_us (None or ticks)
    call,              \* the last call made on the controller, with its arguments
    err,               \* the exception the last call raised, or NoError
    ret,               \* the value the last call returned, or None
    out,               \* the frames the last call wrote to the port, in order
    err_method,        \* the method a MicroMaestroNotSupportedError names, or ""
    reads,             \* the number of port.read() calls the last call made
    pre,               \* targets, limits before the last call
    last_sent,         \* per channel, the value of the last SET_TARGET frame written
    nops,              \* calls made so far
    safe_close,        \* self.safe_close
    closed,            \* self._closed
    port_open,         \* self._port is open
    cl,                \* per caller of close(): how far its call has run
    flushes,           \* the calls of self._port.flush() the last call made
    relay,             \* a Relay object and the GPIO pin it drives
    menu,              \* the Menu widget and the app's bindings
    arg,               \* the argument of the pure function applied
    res                \* its outcome, without error and value before it is applied

closevars == <<safe_close, closed, port_open, cl>>
purevars == <<arg, res>>

vars == <<is_micro, targets_us, min_targets_us, max_targets_us, call, err,
          err_method, ret, out, reads, pre, last_sent, nops, safe_close, closed,
          port_open, cl, flushes, relay, menu, arg, res>>

\* the callers of close(): an explicit close() and __exit__; __del__ has the
\* body of __exit__
Triggers == {"close", "__exit__"}

\* self._pololu_cmd
pololu_cmd == <<POLOLU_PROTOCOL, DEFAULT_DEVICE_NUMBER>>

Snapshot == [targets |-> targets_us, lo |-> min_targets_us, hi |-> max_targets_us]

\* no Relay has been constructed
NoRelay ==
    [made |-> FALSE, gpio |-> 0, active_high |-> FALSE, active |-> FALSE,
     open |-> None, setup |-> FALSE, level |-> "", cleanups |-> 0, op |-> "",
     err |-> NoError, ret |-> None, finalized |-> FALSE]

\* ------------------------------------------------------------ the Menu widget
\* MenuBook: the menus by name, each a title and a list of items; an item is
\* (chr, description, callback) and a separator is None.  "main" and
\* "us_increment" are add_menus.py's, shortened; "framed" has a separator at
\* each end.
MenuNames == {"main", "us_increment", "framed"}

menubook ==
    [n \in MenuNames |->
        CASE n = "main" ->
               [name |-> n, title |-> "Main Menu",
                items |-> << <<"C", "Toggle Config Mode", "app.toggle_config_mode">>,
                             None,
                             <<"I", "Change increment", "load_menu('us_increment')">>,
                             <<"Q", "<-- Back", "menu_backout">> >>]
          [] n = "us_increment" ->
               [name |-> n, title |-> "Increment",
                items |-> << <<"1", "1 us", "set_us_increment(1)">>,
                             <<"c", "100 us", "set_us_increment(100)">>,
                             None,
                             <<"Q", "<-- Back", "menu_backout">> >>]
          [] OTHER ->
               [name |-> n, title |-> "",
                items |-> << None, <<"x", "Only", "menu_escape">>, None >>]]

\* str.lower and str.upper on the one-character keys of the menus
LowerCase == [C |-> "c", I |-> "i", Q |-> "q"]
UpperCase == [c |-> "C", x |-> "X"]
lower(s) == IF s \in DOMAIN LowerCase THEN LowerCase[s] ELSE s
upper(s) == IF s \in DOMAIN UpperCase THEN UpperCase[s] ELSE s

\* Bindings(): no key bound
Bindings == {}

\* Bindings.bind: the key gets the action, whatever it had before
bind(b, key, action) == {p \in b : p[1] # key} \cup {<<key, action>>}

\* the bindings of the app before any menu is loaded
AppBindings == bind(bind(Bindings, ".", "main_menu"), "ctrl+c", "quit")

\* Menu(): no menu loaded, nothing shown, nothing bound on the widget
NoMenu ==
    [menuname |-> None, items |-> << >>, title |-> "", index |-> 0,
     show |-> FALSE, stack |-> << >>, app_bindings |-> AppBindings,
     bindings |-> Bindings, bound_at_load |-> << >>, op |-> "__init__",
     pre_index |-> 0, err |-> NoError]

\* the hotkeys of the items, bound in turn from item i on
RECURSIVE bind_items(_, _, _)
bind_items(b, items, i) ==
    IF i > Len(items) THEN b
    ELSE IF items[i] = None THEN bind_items(b, items, i + 1)
    ELSE bind_items(bind(bind(b, lower(items[i][1]), items[i][3]),
                         upper(items[i][1]), items[i][3]),
                    items, i + 1)

\* Menu._bind_current_menu: the app gets fresh Bindings, the widget's own
\* bindings get the navigation keys and the hotkeys of the menu's items
bind_current_menu(m) ==
    LET nav == bind(bind(bind(bind(bind(m.bindings,
                   "escape", "menu_escape"), ".", "menu_escape"),
                   "down", "menu_down"), "up", "menu_up"),
                   "enter", "menu_enter")
    IN  [m EXCEPT !.app_bindings = Bindings,
                  !.bindings = bind_items(nav, m.items, 1)]

\* Menu.load_menu(name) for a name of the book.  bound_at_load is the
\* observer's record of the widget's bindings at each load, beside the
\* stack; the code keeps none.
load_menu(m, name) ==
    LET pushed == [m EXCEPT
            !.stack = Append(m.stack,
                             [menuname |-> m.menuname, items |-> m.items,
                              title |-> m.title, bindings |-> m.app_bindings]),
            !.bound_at_load = Append(m.bound_at_load, m.bindings),
            !.menuname = Some(menubook[name].name),
            !.items = menubook[name].items,
            !.title = menubook[name].title,
            !.index = 0]
    IN  [bind_current_menu(pushed) EXCEPT !.show = TRUE]

\* (...) = self._menu_stack.pop(): IndexError on an empty stack, before
\* anything is assigned
pop_one(m) ==
    IF m.stack = << >> THEN [m EXCEPT !.err = "IndexError"]
    ELSE LET top == m.stack[Len(m.stack)]
         IN  [m EXCEPT !.menuname = top.menuname, !.items = top.items,
                       !.title = top.title, !.app_bindings = top.bindings,
                       !.stack = SubSeq(m.stack, 1, Len(m.stack) - 1),
                       !.bound_at_load =
                           SubSeq(m.bound_at_load, 1, Len(m.bound_at_load) - 1)]

\* while self.menuname is not None: pop
RECURSIVE pop_all(_)
pop_all(m) ==
    IF m.menuname = None \/ m.err # NoError THEN m ELSE pop_all(pop_one(m))

\* Menu.pop_menu
pop_menu(m, all) ==
    LET popped == IF all THEN pop_all(m) ELSE pop_one(m)
    IN  IF popped.err # NoError THEN popped
        ELSE [popped EXCEPT !.index = 0, !.show = (popped.menuname # None)]

\* self._menu_items[i] of Python, i from 0, a negative i counting from the end
HasItem(items, i) == i \in (0 - Len(items))..(Len(items) - 1)
ItemAt(items, i) == IF i < 0 THEN items[Len(items) + i + 1] ELSE items[i + 1]

\* a pass of action_menu_down that runs off the end of the list
loop_down_NoWrap(items, index) == index + 1

\* action_menu_down: the index of one pass
loop_down(items, index) == IF index = Len(items) THEN 1 ELSE index + 1

\* action_menu_up: the index of one pass
loop_up(items, index) ==
    IF index = 0 \/ index = 1 THEN Len(items) ELSE index - 1

\* the while True loop of the two actions: a pass ended at index i breaks on
\* an item, goes on over a separator, and fails on an index outside the
\* list.  After len(items) + 1 passes without a break the indices repeat:
\* the loop never ends.
RECURSIVE menu_loop(_, _, _, _)
menu_loop(items, index, up, passes) ==
    LET i == IF up THEN loop_up(items, index) ELSE loop_down(items, index)
    IN  IF ~HasItem(items, i - 1) THEN [index |-> i, err |-> "IndexError"]
        ELSE IF ItemAt(items, i - 1) # None THEN [index |-> i, err |-> NoError]
        ELSE IF passes = 0 THEN [index |-> i, err |-> "NoReturn"]
        ELSE menu_loop(items, i, up, passes - 1)

action_menu_down(items, index) == menu_loop(items, index, FALSE, Len(items))
action_menu_up(items, index) == menu_loop(items, index, TRUE, Len(items))

\* ServoController.__init__, but for the is_micro and safe_close arguments,
\* and Menu(); relay and arg are no part of either
Constructed ==
    /\ targets_us = [c \in Channels |-> 0]
    /\ min_targets_us = [c \in Channels |-> None]
    /\ max_targets_us = [c \in Channels |-> None]
    /\ call = [op |-> "__init__"]
    /\ err = NoError
    /\ err_method = ""
    /\ ret = None
    /\ out = << >>
    /\ reads = 0
    /\ pre = [targets |-> [c \in Channels |-> 0],
              lo |-> [c \in Channels |-> None],
              hi |-> [c \in Channels |-> None]]
    /\ last_sent = [c \in Channels |-> None]
    /\ nops = 0
    /\ closed = FALSE
    /\ port_open = TRUE
    /\ cl = [t \in Triggers |-> [pc |-> "idle", channel |-> 0, frames |-> << >>,
                                  err |-> NoError]]
    /\ res = [err |-> NoError, value |-> << >>]
    /\ flushes = 0
    /\ menu = NoMenu

\* ServoController(is_micro=..., safe_close=True)
Init ==
    /\ is_micro \in BOOLEAN
    /\ safe_close = TRUE
    /\ Constructed
    /\ relay = NoRelay
    /\ arg = 0

\* ------------------------------------------------- the running of one call
\* A call in progress is a record: the targets as recorded so far, the frames
\* written so far, the exception raised (NoError while running), the value
\* returned, the port.read() calls made and the number of port writes that
\* will still succeed (ok_writes).

Begin(ok_writes) ==
    [targets |-> targets_us, out |-> << >>, err |-> NoError, method |-> "",
     ret |-> None, reads |-> 0, ok_writes |-> ok_writes, flushed |-> 0]

Raise(io, exception) == [io EXCEPT !.err = exception]

\* send_cmd without the flush of line 225
send_cmd_NoFlush(io, cmd) ==
    IF ~port_open THEN Raise(io, "PortNotOpenError")
    ELSE IF io.ok_writes = 0 THEN Raise(io, "SerialException")
    ELSE [io EXCEPT !.out = Append(@, pololu_cmd \o cmd), !.ok_writes = @ - 1]

\* send_cmd writing its frame a second time
send_cmd_Twice(io, cmd) ==
    IF ~port_open THEN Raise(io, "PortNotOpenError")
    ELSE IF io.ok_writes = 0 THEN Raise(io, "SerialException")
    ELSE [io EXCEPT !.out = @ \o <<pololu_cmd \o cmd, pololu_cmd \o cmd>>,
                    !.ok_writes = @ - 1, !.flushed = @ + 1]

\* send_cmd: write the frame, then flush; a write to a closed port and a
\* failing write raise
send_cmd(io, cmd) ==
    IF ~port_open THEN Raise(io, "PortNotOpenError")
    ELSE IF io.ok_writes = 0 THEN Raise(io, "SerialException")
    ELSE [io EXCEPT !.out = Append(@, pololu_cmd \o cmd), !.ok_writes = @ - 1,
                    !.flushed = @ + 1]

\* list[channel]: an index below 0 counts from the end of the 24-element
\* list, an index outside -24 .. 23 raises IndexError
ValidIndex(channel) == -NumChannels <= channel /\ channel < NumChannels
ListIndex(channel) == IF channel < 0 THEN channel + NumChannels ELSE channel

\* ClampedUs without the max check of lines 306-308
ClampedUs_NoMax(channel, target) ==
    LET target_us == target * QTicks
        min_target_us == min_targets_us[ListIndex(channel)]
    IN  IF Truthy(min_target_us) /\ target_us < min_target_us[1]
        THEN min_target_us[1] ELSE target_us

\* set_target, lines 298-308: the target in microseconds, forced into the limits
ClampedUs(channel, target) ==
    LET target_us == target * QTicks
        min_target_us == min_targets_us[ListIndex(channel)]
        t1 == IF Truthy(min_target_us) /\ target_us < min_target_us[1]
              THEN min_target_us[1] ELSE target_us
        max_target_us == max_targets_us[ListIndex(channel)]
    IN  IF Truthy(max_target_us) /\ t1 > max_target_us[1]
        THEN max_target_us[1] ELSE t1

\* set_target without line 311: the target is sent but not recorded
set_target_NoRecord(io, channel, target) ==
    IF ~ValidIndex(channel) THEN Raise(io, "IndexError")
    ELSE IF ~Encodable(target) THEN Raise(io, "AssertionError")
    ELSE IF channel \notin 0 .. 255 THEN Raise(io, "ValueError")
    ELSE send_cmd(io, <<SET_TARGET, channel>> \o get_lsb_msb(target))

\* set_target: read the limits (IndexError for a channel that is no list
\* index), record the clamped target, then encode `target` (AssertionError),
\* build the frame (bytes() takes 0 .. 255 only: ValueError) and send it
set_target(io, channel, target) ==
    LET recorded == [io EXCEPT
                         !.targets[ListIndex(channel)] = ClampedUs(channel, target)]
    IN  IF ~ValidIndex(channel) THEN Raise(io, "IndexError")
        ELSE IF ~Encodable(target) THEN Raise(recorded, "AssertionError")
        ELSE IF channel \notin 0 .. 255 THEN Raise(recorded, "ValueError")
        ELSE send_cmd(recorded, <<SET_TARGET, channel>> \o get_lsb_msb(target))

\* set_target_us: target = int(round(4 * target_us))
set_target_us(io, channel, target_us) ==
    set_target(io, channel, Round(QuartersPerUs * target_us, US))

\* stop_channel
\* stop_channel, but sending the channel's clamped target
stop_channel_AtMin(io, channel) ==
    set_target(io, channel, ClampedUs(channel, 0) \div QTicks)

stop_channel(io, channel) == set_target(io, channel, 0)

\* set_each_target_us iterating sorted(targets_us.items()) instead
RECURSIVE set_each_target_us_Sorted(_, _)
set_each_target_us_Sorted(io, items) ==
    IF items = << >> \/ io.err # NoError THEN io
    ELSE LET i == CHOOSE i \in 1 .. Len(items) :
                      \A j \in 1 .. Len(items) : items[i][1] <= items[j][1]
             rest == [k \in 1 .. (Len(items) - 1) |->
                          IF k < i THEN items[k] ELSE items[k + 1]]
         IN  set_each_target_us_Sorted(set_target_us(io, items[i][1], items[i][2]), rest)

\* set_targets_us on the Micro Maestro: one set_target_us per item, in the
\* mapping's iteration order; an exception ends the loop
RECURSIVE set_each_target_us(_, _)
set_each_target_us(io, items) ==
    IF items = << >> \/ io.err # NoError THEN io
    ELSE set_each_target_us(set_target_us(io, Head(items)[1], Head(items)[2]),
                            Tail(items))

\* set_targets_us.  On the other Maestros channels[0] of an empty mapping
\* raises IndexError, and line 345 reads the local target_us, which that
\* path has not assigned yet: UnboundLocalError, before any block is built
set_targets_us(io, targets) ==
    IF is_micro THEN set_each_target_us(io, targets)
    ELSE IF targets = << >> THEN Raise(io, "IndexError")
    ELSE Raise(io, "UnboundLocalError")

\* the decorator without its is_micro check
micro_maestro_supported(io, method, body) == body

\* the decorator _micro_maestro_not_supported around `body`
micro_maestro_not_supported(io, method, body) ==
    IF is_micro
    THEN [io EXCEPT !.err = "MicroMaestroNotSupportedError", !.method = method]
    ELSE body

\* set_pwm: both values in 1/48 us, encoded one after the other, then sent
\* set_pwm putting the period in front of the on time
pwm_body_Swapped(io, on_time_us, period_us) ==
    LET on_time == Round(PwmTicksPerUs * on_time_us, US)
        period == Round(PwmTicksPerUs * period_us, US)
    IN  IF ~Encodable(on_time) \/ ~Encodable(period)
        THEN Raise(io, "AssertionError")
        ELSE send_cmd(io, <<SET_PWM>> \o get_lsb_msb(period) \o get_lsb_msb(on_time))

pwm_body(io, on_time_us, period_us) ==
    LET on_time == Round(PwmTicksPerUs * on_time_us, US)
        period == Round(PwmTicksPerUs * period_us, US)
    IN  IF ~Encodable(on_time) \/ ~Encodable(period)
        THEN Raise(io, "AssertionError")
        ELSE send_cmd(io, <<SET_PWM>> \o get_lsb_msb(on_time) \o get_lsb_msb(period))

set_pwm(io, on_time_us, period_us) ==
    micro_maestro_not_supported(io, "set_pwm", pwm_body(io, on_time_us, period_us))

\* _read(byte_count): one port.read; fewer bytes than asked is a TimeoutError.
\* `resp` is what the controller delivers before the read timeout.
read(io, byte_count, resp) ==
    LET io1 == [io EXCEPT !.reads = @ + 1]
    IN  IF Len(resp) # byte_count THEN Raise(io1, "TimeoutError") ELSE io1

Return(io, value) == IF io.err = NoError THEN [io EXCEPT !.ret = Some(value)] ELSE io

\* get_errors
get_errors(io, resp) ==
    LET sent == send_cmd(io, <<GET_ERRORS>>)
    IN  IF sent.err # NoError THEN sent
        ELSE IF Len(resp) = 2 THEN Return(read(sent, 2, resp), resp[1] * 256 + resp[2])
        ELSE read(sent, 2, resp)

\* script_is_running: the Maestro returns 0x00 if a script is running
script_is_running(io, resp) ==
    LET sent == send_cmd(io, <<GET_SCRIPT_STATUS>>)
    IN  IF sent.err # NoError THEN sent
        ELSE IF Len(resp) = 1 THEN Return(read(sent, 1, resp), resp[1] = 0)
        ELSE read(sent, 1, resp)

\* servos_are_moving
moving_body(io, resp) ==
    LET sent == send_cmd(io, <<GET_MOVING_STATE>>)
    IN  IF sent.err # NoError THEN sent
        ELSE IF Len(resp) = 1 THEN Return(read(sent, 1, resp), resp[1] = 1)
        ELSE read(sent, 1, resp)

servos_are_moving(io, resp) ==
    micro_maestro_not_supported(io, "servos_are_moving", moving_body(io, resp))

\* get_position putting the second byte 7 bits up instead of 8
get_position_7bit(io, chan, resp) ==
    LET sent == send_cmd(io, <<GET_POSITION, chan>>)
    IN  IF sent.err # NoError THEN sent
        ELSE IF Len(resp) = 0 THEN Raise([sent EXCEPT !.reads = 1], "TypeError")
        ELSE IF Len(resp) = 1 THEN Raise([sent EXCEPT !.reads = 2], "TypeError")
        ELSE Return([sent EXCEPT !.reads = 2], resp[2] * 128 + resp[1])

\* get_position: ord(self._port.read()) twice, not _read; ord of the empty
\* bytes a timed-out read returns is a TypeError
get_position(io, chan, resp) ==
    LET sent == send_cmd(io, <<GET_POSITION, chan>>)
    IN  IF sent.err # NoError THEN sent
        ELSE IF Len(resp) = 0 THEN Raise([sent EXCEPT !.reads = 1], "TypeError")
        ELSE IF Len(resp) = 1 THEN Raise([sent EXCEPT !.reads = 2], "TypeError")
        ELSE Return([sent EXCEPT !.reads = 2], resp[2] * 256 + resp[1])

\* get_position_us: get_position(chan) / 4, in ticks
get_position_us(io, chan, resp) ==
    LET got == get_position(io, chan, resp)
    IN  IF got.err # NoError THEN got ELSE Return(got, got.ret[1] * QTicks)

\* set_speed that takes a speed of 0 for a stop and records it
set_speed_Recording(io, channel, speed) ==
    IF ~Encodable(speed) THEN Raise(io, "AssertionError")
    ELSE IF channel \notin 0 .. 255 THEN Raise(io, "ValueError")
    ELSE send_cmd([io EXCEPT !.targets[ListIndex(channel)] =
                                 IF speed = 0 THEN 0 ELSE @],
                  <<SET_SPEED, channel>> \o get_lsb_msb(speed))

\* set_speed and set_acceleration: encode the value, build the frame, send
set_speed(io, channel, speed) ==
    IF ~Encodable(speed) THEN Raise(io, "AssertionError")
    ELSE IF channel \notin 0 .. 255 THEN Raise(io, "ValueError")
    ELSE send_cmd(io, <<SET_SPEED, channel>> \o get_lsb_msb(speed))

set_acceleration(io, channel, acceleration) ==
    IF ~Encodable(acceleration) THEN Raise(io, "AssertionError")
    ELSE IF channel \notin 0 .. 255 THEN Raise(io, "ValueError")
    ELSE send_cmd(io, <<SET_ACCELERATION, channel>> \o get_lsb_msb(acceleration))

go_home(io) == send_cmd(io, <<GO_HOME>>)

stop_script(io) == send_cmd(io, <<STOP_SCRIPT>>)

run_script_subroutine(io, subroutine) ==
    IF subroutine \notin 0 .. 255 THEN Raise(io, "ValueError")
    ELSE send_cmd(io, <<RESTART_SCRIPT_AT_SUBROUTINE, subroutine>>)

run_script_subroutine_with_parameter(io, subroutine, parameter) ==
    IF ~Encodable(parameter) THEN Raise(io, "AssertionError")
    ELSE IF subroutine \notin 0 .. 255 THEN Raise(io, "ValueError")
    ELSE send_cmd(io, <<RESTART_SCRIPT_AT_SUBROUTINE_WITH_PARAMETER, subroutine>>
                          \o get_lsb_msb(parameter))

\* is_moving: target_us and abs(target_us - get_position_us(channel)) < 0.01;
\* a target of 0 is returned as it is, without a query
is_moving(io, channel, resp) ==
    LET target_us == targets_us[ListIndex(channel)]
        got == get_position_us(io, channel, resp)
        diff == target_us - got.ret[1]
    IN  IF target_us = 0 THEN Return(io, 0)
        ELSE IF got.err # NoError THEN got
        ELSE Return(got, (IF diff < 0 THEN -diff ELSE diff) * 100 < US)

\* ---------------------------------------------------------------- actions

\* the value carried by a SET_TARGET frame, and its channel
FrameChannel(f) == f[4]
FrameValue(f) == f[6] * 128 + f[5]
IsSetTarget(f) == Len(f) = 6 /\ f[3] = SET_TARGET

RECURSIVE Sent(_, _)
Sent(sent, frames) ==
    IF frames = << >> THEN sent
    ELSE LET f == Head(frames)
         IN  Sent(IF IsSetTarget(f) /\ FrameChannel(f) \in Channels
                  THEN [sent EXCEPT ![FrameChannel(f)] = Some(FrameValue(f))]
                  ELSE sent,
                  Tail(frames))

\* the state after a call that ran to `io` (returned or raised)
Done(c, io) ==
    /\ nops < MaxOps
    /\ nops' = nops + 1
    /\ call' = c
    /\ pre' = Snapshot
    /\ targets_us' = io.targets
    /\ out' = io.out
    /\ err' = io.err
    /\ err_method' = io.method
    /\ ret' = IF io.err = NoError THEN io.ret ELSE None
    /\ reads' = io.reads
    /\ last_sent' = Sent(last_sent, io.out)
    /\ flushes' = io.flushed
    /\ UNCHANGED <<is_micro, closevars, purevars, relay, menu>>

\* set_range: two list assignments, no check of the channel or of the order
\* of the limits
set_range(limits, channel, us) ==
    IF ValidIndex(channel) THEN [limits EXCEPT ![ListIndex(channel)] = us] ELSE limits

SetRangeOn(channels, ranges) ==
    \E channel \in channels, r \in ranges :
        /\ min_targets_us' = set_range(min_targets_us, channel, r[1])
        /\ max_targets_us' = set_range(max_targets_us, channel, r[2])
        /\ Done([op |-> "set_range", channel |-> channel, min_us |-> r[1],
                 max_us |-> r[2]],
                IF ValidIndex(channel) THEN Begin(0) ELSE Raise(Begin(0), "IndexError"))

SetRange == SetRangeOn(ChannelInputs, RangeInputs)

SetTargetOn(channels) ==
    \E channel \in channels, target \in TargetInputs, w \in 0 .. 1 :
        /\ Done([op |-> "set_target", channel |-> channel, target |-> target],
                set_target(Begin(w), channel, target))
        /\ UNCHANGED <<min_targets_us, max_targets_us>>

SetTarget == SetTargetOn(ChannelInputs)

SetTargetUsOn(channels, values) ==
    \E channel \in channels, target_us \in values, w \in 0 .. 1 :
        /\ Done([op |-> "set_target_us", channel |-> channel, target_us |-> target_us],
                set_target_us(Begin(w), channel, target_us))
        /\ UNCHANGED <<min_targets_us, max_targets_us>>

SetTargetUs == SetTargetUsOn(ChannelInputs, UsInputs)

StopChannel ==
    \E channel \in ChannelInputs, w \in 0 .. 1 :
        /\ Done([op |-> "stop_channel", channel |-> channel],
                stop_channel(Begin(w), channel))
        /\ UNCHANGED <<min_targets_us, max_targets_us>>

SetTargetsUs ==
    \E targets \in BatchInputs, w \in 0 .. Cardinality(BatchChannelInputs) :
        /\ w <= Len(targets)
        /\ Done([op |-> "set_targets_us", targets |-> targets],
                set_targets_us(Begin(w), targets))
        /\ UNCHANGED <<min_targets_us, max_targets_us>>

SetPwm ==
    \E on_time_us \in PwmInputs, period_us \in PwmInputs, w \in 0 .. 1 :
        /\ Done([op |-> "set_pwm", on_time_us |-> on_time_us, period_us |-> period_us],
                set_pwm(Begin(w), on_time_us, period_us))
        /\ UNCHANGED <<min_targets_us, max_targets_us>>

GetErrors ==
    \E w \in 0 .. 1 : \E resp \in ResponseInputs(w, 2) :
        /\ Done([op |-> "get_errors", expect |-> 2, resp |-> resp],
                get_errors(Begin(w), resp))
        /\ UNCHANGED <<min_targets_us, max_targets_us>>

ScriptIsRunning ==
    \E w \in 0 .. 1 : \E resp \in ResponseInputs(w, 1) :
        /\ Done([op |-> "script_is_running", expect |-> 1, resp |-> resp],
                script_is_running(Begin(w), resp))
        /\ UNCHANGED <<min_targets_us, max_targets_us>>

ServosAreMoving ==
    \E w \in 0 .. 1 : \E resp \in ResponseInputs(w, 1) :
        /\ Done([op |-> "servos_are_moving", expect |-> 1, resp |-> resp],
                servos_are_moving(Begin(w), resp))
        /\ UNCHANGED <<min_targets_us, max_targets_us>>

GetPosition ==
    \E chan \in ChannelInputs, w \in 0 .. 1 : \E resp \in ResponseInputs(w, 2) :
        /\ Done([op |-> "get_position", chan |-> chan, expect |-> 2, resp |-> resp],
                get_position(Begin(w), chan, resp))
        /\ UNCHANGED <<min_targets_us, max_targets_us>>

GetPositionUs ==
    \E chan \in ChannelInputs, w \in 0 .. 1 : \E resp \in ResponseInputs(w, 2) :
        /\ Done([op |-> "get_position_us", chan |-> chan, expect |-> 2, resp |-> resp],
                get_position_us(Begin(w), chan, resp))
        /\ UNCHANGED <<min_targets_us, max_targets_us>>

SetSpeed ==
    \E channel \in ChannelInputs, speed \in ValueInputs, w \in 0 .. 1 :
        /\ Done([op |-> "set_speed", channel |-> channel, value |-> speed],
                set_speed(Begin(w), channel, speed))
        /\ UNCHANGED <<min_targets_us, max_targets_us>>

SetAcceleration ==
    \E channel \in ChannelInputs, acceleration \in ValueInputs, w \in 0 .. 1 :
        /\ Done([op |-> "set_acceleration", channel |-> channel,
                 value |-> acceleration],
                set_acceleration(Begin(w), channel, acceleration))
        /\ UNCHANGED <<min_targets_us, max_targets_us>>

GoHome ==
    \E w \in 0 .. 1 :
        /\ Done([op |-> "go_home"], go_home(Begin(w)))
        /\ UNCHANGED <<min_targets_us, max_targets_us>>

StopScript ==
    \E w \in 0 .. 1 :
        /\ Done([op |-> "stop_script"], stop_script(Begin(w)))
        /\ UNCHANGED <<min_targets_us, max_targets_us>>

RunScriptSubroutine ==
    \E subroutine \in SubroutineInputs, w \in 0 .. 1 :
        /\ Done([op |-> "run_script_subroutine", subroutine |-> subroutine],
                run_script_subroutine(Begin(w), subroutine))
        /\ UNCHANGED <<min_targets_us, max_targets_us>>

RunScriptSubroutineWithParameter ==
    \E subroutine \in SubroutineInputs, parameter \in ValueInputs, w \in 0 .. 1 :
        /\ Done([op |-> "run_script_subroutine_with_parameter",
                 subroutine |-> subroutine, value |-> parameter],
                run_script_subroutine_with_parameter(Begin(w), subroutine, parameter))
        /\ UNCHANGED <<min_targets_us, max_targets_us>>

IsMoving ==
    \E channel \in ChannelInputs, w \in 0 .. 1 :
        \E resp \in (IF w = 0 THEN {<< >>} ELSE SeqsUpTo(MovingByteInputs, 2)) :
            /\ Done([op |-> "is_moving", channel |-> channel, resp |-> resp],
                    is_moving(Begin(w), channel, resp))
            /\ UNCHANGED <<min_targets_us, max_targets_us>>

\* close(), one step per statement: each caller runs the steps on its own
\* position cl[t]; nothing in close() takes a lock

\* a call of close() that has ended, by return or by an exception
Finished(t) == cl[t].pc \in {"returned", "done", "raised"}
\* a call of close() that is between its first and its last statement
Running(t) == cl[t].pc \in {"stop", "release", "flag"}

\* if self._closed: return / if self.safe_close: for channel in range(24)
CloseEnter(t) ==
    /\ cl[t].pc = "idle"
    /\ cl' = [cl EXCEPT ![t].pc = IF closed THEN "returned"
                                  ELSE IF safe_close THEN "stop"
                                  ELSE "release"]
    /\ UNCHANGED <<flushes, relay, menu,
                   is_micro, targets_us, min_targets_us, max_targets_us, call,
                   err, err_method, ret, out, reads, pre, last_sent, nops,
                   safe_close, closed, port_open, purevars>>

\* self.stop_channel(channel), one iteration of the loop; an exception leaves
\* close() at once
CloseStop(t) ==
    /\ cl[t].pc = "stop"
    /\ \E w \in 0 .. 1 :
        LET io == stop_channel(Begin(w), cl[t].channel)
        IN  /\ targets_us' = io.targets
            /\ last_sent' = Sent(last_sent, io.out)
            /\ cl' = [cl EXCEPT
                         ![t].pc = IF io.err # NoError THEN "raised"
                                   ELSE IF cl[t].channel + 1 = NumChannels
                                   THEN "release" ELSE "stop",
                         ![t].channel = IF io.err # NoError THEN @ ELSE @ + 1,
                         ![t].frames = @ \o io.out,
                         ![t].err = io.err]
    /\ UNCHANGED <<flushes, relay, menu,
                   is_micro, min_targets_us, max_targets_us, call, err,
                   err_method, ret, out, reads, pre, nops, safe_close, closed,
                   port_open, purevars>>

\* self._port.close()
CloseRelease(t) ==
    /\ cl[t].pc = "release"
    /\ port_open' = FALSE
    /\ cl' = [cl EXCEPT ![t].pc = "flag"]
    /\ UNCHANGED <<flushes, relay, menu,
                   is_micro, targets_us, min_targets_us, max_targets_us, call,
                   err, err_method, ret, out, reads, pre, last_sent, nops,
                   safe_close, closed, purevars>>

\* self._closed = True
CloseFlag(t) ==
    /\ cl[t].pc = "flag"
    /\ closed' = TRUE
    /\ cl' = [cl EXCEPT ![t].pc = "done"]
    /\ UNCHANGED <<flushes, relay, menu,
                   is_micro, targets_us, min_targets_us, max_targets_us, call,
                   err, err_method, ret, out, reads, pre, last_sent, nops,
                   safe_close, port_open, purevars>>

\* set_range on the first channel of a controller nobody has closed yet
Configure ==
    /\ \A t \in Triggers : cl[t].pc = "idle"
    /\ SetRangeOn({0}, CloseRangeInputs)

\* a call of close() made while no other call of close() is running
CloseEnterAlone(t) ==
    /\ \A u \in Triggers : ~Running(u)
    /\ CloseEnter(t)

\* Relay (GPIO.py).  RPi.GPIO is held as the state of the one pin: whether it
\* is set up as an output, its level, and the calls of GPIO.cleanup() so far.

\* Relay.__init__: setmode, setup, off(); self.open is not assigned
Relay(gpio, active_high) ==
    [made |-> TRUE, gpio |-> gpio, active_high |-> active_high, active |-> FALSE,
     open |-> None, setup |-> TRUE,
     level |-> IF active_high THEN "LOW" ELSE "HIGH", cleanups |-> 0,
     op |-> "__init__", err |-> NoError, ret |-> None, finalized |-> FALSE]

\* the start of a call of method op
RelayCall(r, op) == [r EXCEPT !.op = op, !.err = NoError, !.ret = None]

\* GPIO.output: RuntimeError on a pin that is not set up as an output
GPIO_output(r, level) ==
    IF r.setup THEN [r EXCEPT !.level = level] ELSE [r EXCEPT !.err = "RuntimeError"]

\* GPIO.cleanup: the pin goes back to an input
GPIO_cleanup(r) == [r EXCEPT !.setup = FALSE, !.level = "INPUT", !.cleanups = @ + 1]

\* on() that drives the pin and leaves self.active as it was
Relay_on_NoFlag(r) == GPIO_output(r, IF r.active_high THEN "HIGH" ELSE "LOW")

Relay_on(r) ==
    LET o == GPIO_output(r, IF r.active_high THEN "HIGH" ELSE "LOW")
    IN  IF o.err # NoError THEN o ELSE [o EXCEPT !.active = TRUE]

Relay_off(r) ==
    LET o == GPIO_output(r, IF r.active_high THEN "LOW" ELSE "HIGH")
    IN  IF o.err # NoError THEN o ELSE [o EXCEPT !.active = FALSE]

Relay_toggle(r) == IF r.active THEN Relay_off(r) ELSE Relay_on(r)

Relay_is_active(r) == [r EXCEPT !.ret = Some(r.active)]

Relay_is_on_off(r) == [r EXCEPT !.ret = Some(IF r.active THEN "On" ELSE "Off")]

Relay_close(r) == GPIO_cleanup([r EXCEPT !.open = Some(FALSE)])

\* Relay.__del__: reading self.open before any close() is an AttributeError
Relay_del(r) ==
    LET f == [r EXCEPT !.finalized = TRUE]
    IN  IF f.open = None THEN [f EXCEPT !.err = "AttributeError"]
        ELSE IF f.open = Some(TRUE) THEN GPIO_cleanup(f)
        ELSE f

\* the state of the controller, which no Relay method touches
controllervars ==
    <<is_micro, targets_us, min_targets_us, max_targets_us, call, err,
      err_method, ret, out, reads, pre, last_sent, flushes>>

\* the state after a call on the Relay that ran to r
RelayDone(r) ==
    /\ nops < MaxOps
    /\ ~relay.finalized
    /\ nops' = nops + 1
    /\ relay' = r
    /\ UNCHANGED <<controllervars, closevars, purevars, menu>>

RelayOn == RelayDone(Relay_on(RelayCall(relay, "on")))
RelayOff == RelayDone(Relay_off(RelayCall(relay, "off")))
RelayToggle == RelayDone(Relay_toggle(RelayCall(relay, "toggle")))
RelayIsActive == RelayDone(Relay_is_active(RelayCall(relay, "is_active")))
RelayIsOnOff == RelayDone(Relay_is_on_off(RelayCall(relay, "is_on_off")))
RelayClose == RelayDone(Relay_close(RelayCall(relay, "close")))
RelayDel == RelayDone(Relay_del(RelayCall(relay, "__del__")))

\* single-channel target commands
Next ==
    \/ SetRange
    \/ SetTarget
    \/ SetTargetUs
    \/ StopChannel

Spec == Init /\ [][Next]_vars

\* batches of targets
NextBatch ==
    \/ SetRange
    \/ SetTargetsUs

SpecBatch == Init /\ [][NextBatch]_vars

\* queries and the full-variant-only operations
NextQuery ==
    \/ SetRange
    \/ SetTargetUs
    \/ SetPwm
    \/ GetErrors
    \/ ScriptIsRunning
    \/ ServosAreMoving
    \/ GetPosition
    \/ GetPositionUs

SpecQuery == Init /\ [][NextQuery]_vars

\* every operation that writes a single frame, and set_range
NextFrames ==
    \/ SetRangeOn(ChannelInputs, CloseRangeInputs)
    \/ SetTargetUsOn({0}, BatchUsInputs)
    \/ SetSpeed
    \/ SetAcceleration
    \/ GoHome
    \/ StopScript
    \/ SetPwm
    \/ RunScriptSubroutine
    \/ RunScriptSubroutineWithParameter
    \/ GetErrors
    \/ ScriptIsRunning
    \/ ServosAreMoving
    \/ GetPosition
    \/ GetPositionUs
    \/ IsMoving

SpecFrames == Init /\ [][NextFrames]_vars

\* Relay(gpio, active_high)
InitRelay ==
    /\ is_micro = FALSE
    /\ safe_close = TRUE
    /\ Constructed
    /\ relay \in {Relay(gpio, active_high) :
                      gpio \in GpioInputs, active_high \in BOOLEAN}
    /\ arg = 0

\* the life of a Relay
NextRelay ==
    \/ RelayOn
    \/ RelayOff
    \/ RelayToggle
    \/ RelayIsActive
    \/ RelayIsOnOff
    \/ RelayClose
    \/ RelayDel

SpecRelay == InitRelay /\ [][NextRelay]_vars

\* targets and the test whether they are reached
NextMoving ==
    \/ SetTargetUs
    \/ IsMoving

SpecMoving == Init /\ [][NextMoving]_vars

\* set_range and set_target with channel arguments inside and outside 0 .. 23
NextChannel ==
    \/ SetRangeOn(ChannelProbeInputs, RangeInputs)
    \/ SetTargetOn(ChannelProbeInputs)

SpecChannel == Init /\ [][NextChannel]_vars

\* _get_lsb_msb applied to one value, in and just outside of 0 .. 16383
InitCodec ==
    /\ is_micro = FALSE
    /\ safe_close = TRUE
    /\ Constructed
    /\ relay = NoRelay
    /\ arg \in -1 .. (MaxValue + 1)

Encode ==
    /\ res = [err |-> NoError, value |-> << >>]
    /\ res' = IF Encodable(arg)
              THEN [err |-> NoError, value |-> get_lsb_msb(arg)]
              ELSE [err |-> "AssertionError", value |-> << >>]
    /\ UNCHANGED <<flushes, relay, menu,
                   is_micro, targets_us, min_targets_us, max_targets_us, call,
                   err, err_method, ret, out, reads, pre, last_sent, nops,
                   closevars, arg>>

NextCodec == Encode

SpecCodec == InitCodec /\ [][NextCodec]_vars

\* ServoController(is_micro=False, safe_close=...)
InitClose ==
    /\ is_micro = FALSE
    /\ safe_close \in BOOLEAN
    /\ Constructed
    /\ relay = NoRelay
    /\ arg = 0

\* close() called twice, the second call after the first has ended
NextClose ==
    \/ Configure
    \/ \E t \in Triggers : CloseEnterAlone(t)
    \/ \E t \in Triggers : CloseStop(t)
    \/ \E t \in Triggers : CloseRelease(t)
    \/ \E t \in Triggers : CloseFlag(t)

SpecClose == InitClose /\ [][NextClose]_vars

\* ServoController(is_micro=..., safe_close=...)
InitShut ==
    /\ is_micro \in BOOLEAN
    /\ safe_close \in BOOLEAN
    /\ Constructed
    /\ relay = NoRelay
    /\ arg = 0

\* a target command on a controller whose close() has completed
Shut == cl["close"].pc = "done"

\* one close(), and target commands after it
NextShut ==
    \/ Configure
    \/ CloseEnter("close")
    \/ CloseStop("close")
    \/ CloseRelease("close")
    \/ CloseFlag("close")
    \/ Shut /\ SetTargetOn({0})
    \/ Shut /\ SetTargetUsOn({0}, BatchUsInputs)
    \/ Shut /\ StopChannel
    \/ Shut /\ SetTargetsUs

SpecShut == InitShut /\ [][NextShut]_vars

\* close() called from two threads, every interleaving of their statements
NextRace ==
    \/ Configure
    \/ \E t \in Triggers : CloseEnter(t)
    \/ \E t \in Triggers : CloseStop(t)
    \/ \E t \in Triggers : CloseRelease(t)
    \/ \E t \in Triggers : CloseFlag(t)

SpecRace == InitClose /\ [][NextRace]_vars

\* -------------------------------------------------- the life of a Menu widget
\* the state after an action on the Menu that ran to m
MenuDone(m, op, e) ==
    /\ menu' = [m EXCEPT !.op = op, !.err = e, !.pre_index = menu.index]
    /\ UNCHANGED <<controllervars, closevars, purevars, relay, nops>>

Started(m) == [m EXCEPT !.err = NoError]

LoadMenu ==
    \E name \in MenuNames :
        /\ Len(menu.stack) < MaxDepth
        /\ MenuDone(load_menu(Started(menu), name), "load_menu", NoError)

\* the "down" and "up" keys reach the widget while it has the focus, which
\* show_menu gives it and hide_menu takes away
MenuDown ==
    LET r == action_menu_down(menu.items, menu.index)
    IN  /\ menu.show
        /\ MenuDone([menu EXCEPT !.index = r.index], "menu_down", r.err)

MenuUp ==
    LET r == action_menu_up(menu.items, menu.index)
    IN  /\ menu.show
        /\ MenuDone([menu EXCEPT !.index = r.index], "menu_up", r.err)

MenuBackout ==
    LET m == pop_menu(Started(menu), FALSE)
    IN  MenuDone(m, "menu_backout", m.err)

MenuEscape ==
    LET m == pop_menu(Started(menu), TRUE)
    IN  MenuDone(m, "menu_escape", m.err)

InitMenu ==
    /\ is_micro = FALSE
    /\ safe_close = TRUE
    /\ Constructed
    /\ relay = NoRelay
    /\ arg = 0

NextMenu ==
    \/ LoadMenu
    \/ MenuDown
    \/ MenuUp
    \/ MenuBackout
    \/ MenuEscape

SpecMenu == InitMenu /\ [][NextMenu]_vars

\* ------------------------------------------------------------------ claims

TargetOps == {"set_target", "set_target_us", "stop_channel"}
QueryOps ==
    {"get_errors", "get_position", "get_position_us", "script_is_running",
     "servos_are_moving"}

\* the quarter-microsecond target a single-channel target call asks for
Requested ==
    IF call.op = "set_target" THEN call.target
    ELSE IF call.op = "set_target_us" THEN Round(QuartersPerUs * call.target_us, US)
    ELSE 0

\* channel c has both limits stored, in order, neither of them "unrestricted"
HasRange(c) ==
    /\ Truthy(min_targets_us[c])
    /\ Truthy(max_targets_us[c])
    /\ min_targets_us[c][1] <= max_targets_us[c][1]

InRange(c, us) == min_targets_us[c][1] <= us /\ us <= max_targets_us[c][1]

\* C1 (as claimed): when a channel has a stored range and a non-zero target
\* outside it is requested, the SET_TARGET frame that set_target / set_target_us
\* writes carries the clamped value, so the value on the wire lies inside the
\* channel's range.
C1_WireCarriesClamped ==
    (/\ call.op \in {"set_target", "set_target_us"}
     /\ HasRange(call.channel)
     /\ Requested # 0
     /\ ~InRange(call.channel, Requested * QTicks)
     /\ out # << >>)
    => /\ IsSetTarget(out[1])
       /\ FrameValue(out[1]) * QTicks = ClampedUs(call.channel, Requested)
       /\ InRange(call.channel, FrameValue(out[1]) * QTicks)

\* C2 (as claimed): after set_range(c, lo, hi) with lo <= hi, a set_target_us(c, t)
\* that completes leaves the recorded target of c equal to lo when t < lo, hi
\* when t > hi and t otherwise.
C2_RecordedClampedAsClaimed ==
    (/\ call.op = "set_target_us"
     /\ err = NoError
     /\ min_targets_us[call.channel] # None
     /\ max_targets_us[call.channel] # None
     /\ min_targets_us[call.channel][1] <= max_targets_us[call.channel][1])
    => LET lo == min_targets_us[call.channel][1]
           hi == max_targets_us[call.channel][1]
           t == call.target_us
       IN  targets_us[call.channel] =
               IF t < lo THEN lo ELSE IF t > hi THEN hi ELSE t

\* C2 (amended): after set_range(c, lo, hi) with lo <= hi and neither limit 0
\* (0, like None, means unrestricted), set_target_us(c, t) leaves the recorded
\* target of c equal to q clamped into lo..hi, where q = round(4 * t) / 4 is t
\* rounded to the quarter-microsecond: lo when q < lo, hi when q > hi, q
\* otherwise.
C2_RecordedClamped ==
    (call.op = "set_target_us" /\ HasRange(call.channel))
    => LET lo == min_targets_us[call.channel][1]
           hi == max_targets_us[call.channel][1]
           q == Round(QuartersPerUs * call.target_us, US) * QTicks
       IN  targets_us[call.channel] =
               IF q < lo THEN lo ELSE IF q > hi THEN hi ELSE q

\* C2 witness: a target above the range was requested and the range maximum
\* is what is recorded.
C2_Witness ==
    /\ call.op = "set_target_us"
    /\ HasRange(call.channel)
    /\ call.target_us > max_targets_us[call.channel][1]
    /\ targets_us[call.channel] = max_targets_us[call.channel][1]
    /\ err = NoError

\* C3 (as claimed): stop bypasses clamping: whatever range is stored,
\* stop_channel(c) / set_target(c, 0) that completes records target 0 for c and
\* transmits a SET_TARGET frame carrying 0.
C3_StopRecordsZero ==
    (/\ call.op \in {"stop_channel", "set_target"}
     /\ Requested = 0
     /\ err = NoError)
    => /\ targets_us[call.channel] = 0
       /\ Len(out) = 1
       /\ IsSetTarget(out[1])
       /\ FrameChannel(out[1]) = call.channel
       /\ FrameValue(out[1]) = 0

\* C4 (as claimed): the recorded target changes only once a target frame has
\* been issued: a target call that fails before or during the send leaves the
\* recorded targets as they were, so every channel's recorded target is the
\* value of the last target frame sent for it.
C4_RecordedOnlyAfterSend ==
    /\ (call.op \in TargetOps /\ err # NoError) => targets_us = pre.targets
    /\ \A c \in Channels :
           last_sent[c] # None => targets_us[c] = last_sent[c][1] * QTicks

\* C5: on a Micro Maestro every set_pwm and servos_are_moving call raises
\* MicroMaestroNotSupportedError naming the method, writes no frame, reads
\* nothing and leaves targets and limits as they were; on the other Maestros
\* that error is never raised.
C5_CapabilityGate ==
    /\ (is_micro /\ call.op \in {"set_pwm", "servos_are_moving"})
       => /\ err = "MicroMaestroNotSupportedError"
          /\ err_method = call.op
          /\ out = << >>
          /\ reads = 0
          /\ ret = None
          /\ Snapshot = pre
    /\ ~is_micro => err # "MicroMaestroNotSupportedError"

\* C5 witness: set_pwm was refused on a Micro Maestro that has a limit stored.
C5_Witness ==
    /\ is_micro
    /\ call.op = "set_pwm"
    /\ err = "MicroMaestroNotSupportedError"
    /\ \E c \in Channels : min_targets_us[c] # None

\* the first channels of the maximal runs of consecutive channels of a
\* mapping, and the length of the run that starts at s
RunStarts(m) == {s \in Keys(m) : s - 1 \notin Keys(m)}
RunLength(m, s) ==
    CHOOSE n \in 1 .. Len(m) :
        /\ \A k \in 0 .. (n - 1) : s + k \in Keys(m)
        /\ s + n \notin Keys(m)

\* C6 (as claimed): on a full-capability controller set_targets_us with a
\* non-empty mapping completes and transmits exactly one frame per maximal run
\* of consecutive channels: SET_MULTIPLE_TARGETS [0x1F, run_length,
\* first_channel, ...] for a run of two or more, SET_TARGET for a run of one.
C6_BatchGrouping ==
    (/\ ~is_micro
     /\ call.op = "set_targets_us"
     /\ call.targets # << >>)
    => /\ err = NoError
       /\ Len(out) = Cardinality(RunStarts(call.targets))
       /\ \A s \in RunStarts(call.targets) :
              \E i \in 1 .. Len(out) :
                  IF RunLength(call.targets, s) = 1
                  THEN IsSetTarget(out[i]) /\ FrameChannel(out[i]) = s
                  ELSE /\ Len(out[i]) = 5 + 2 * RunLength(call.targets, s)
                       /\ out[i][3] = SET_MULTIPLE_TARGETS
                       /\ out[i][4] = RunLength(call.targets, s)
                       /\ out[i][5] = s

\* C7 (as claimed): on a Micro Maestro set_targets_us that completes on a
\* mapping of n entries transmits exactly n SET_TARGET frames, none batched, in
\* ascending channel order whatever the order of the mapping.
C7_AscendingOrder ==
    (/\ is_micro
     /\ call.op = "set_targets_us"
     /\ err = NoError)
    => /\ Len(out) = Len(call.targets)
       /\ \A i \in 1 .. Len(out) : IsSetTarget(out[i])
       /\ \A i, j \in 1 .. Len(out) :
              i < j => FrameChannel(out[i]) < FrameChannel(out[j])

\* C7 (amended): on a Micro Maestro set_targets_us transmits SET_TARGET frames
\* only, one per entry in the mapping's own iteration order (not sorted by
\* channel): exactly n frames when the call completes on n entries, the
\* frames of the first entries when it fails.
C7_MappingOrder ==
    (is_micro /\ call.op = "set_targets_us")
    => /\ Len(out) <= Len(call.targets)
       /\ err = NoError => Len(out) = Len(call.targets)
       /\ \A i \in 1 .. Len(out) :
              /\ IsSetTarget(out[i])
              /\ FrameChannel(out[i]) = call.targets[i][1]

\* C7 witness: a completed call whose mapping lists a higher channel first,
\* its frames in that same order.
C7_Witness ==
    /\ is_micro
    /\ call.op = "set_targets_us"
    /\ err = NoError
    /\ Len(call.targets) = 2
    /\ call.targets[1][1] > call.targets[2][1]
    /\ Len(out) = 2
    /\ FrameChannel(out[1]) > FrameChannel(out[2])

\* C8 (as claimed): for every channel of a set_targets_us mapping the value
\* encoded on the wire is that channel's request clamped to that channel's own
\* range.
C8_BatchWireClamped ==
    (call.op = "set_targets_us" /\ err = NoError)
    => \A i \in 1 .. Len(call.targets) :
           LET c == call.targets[i][1]
               q == Round(QuartersPerUs * call.targets[i][2], US)
           IN  \E k \in 1 .. Len(out) :
                   /\ IsSetTarget(out[k])
                   /\ FrameChannel(out[k]) = c
                   /\ FrameValue(out[k]) * QTicks = ClampedUs(c, q)

C10_ShortReadTimesOut ==
    (/\ call.op \in QueryOps
     /\ Len(out) = 1
     /\ Len(call.resp) < call.expect)
    => /\ err = "TimeoutError"
       /\ ret = None
       /\ Snapshot = pre


\* a call of close() that reached self._port.close()
Released(t) == cl[t].pc \in {"flag", "done"}

\* the frames of a full safe-stop pass: SET_TARGET 0 for channels 0 .. 23
StopFrames ==
    [i \in 1 .. NumChannels |-> pololu_cmd \o <<SET_TARGET, i - 1, 0, 0>>]

\* C11: when close() has been called twice, one call after the other, the
\* second call returned at once: one of the two calls wrote no frame, did not
\* release the port and raised nothing.
C11_SecondCloseIsNoOp ==
    (\A t \in Triggers : Finished(t))
        => \E t \in Triggers : cl[t].pc = "returned" /\ cl[t].frames = << >>

\* C12: when two calls of close() overlap and neither raises, at most one of
\* them writes stop frames and at most one of them releases the port.
C12_AtMostOnce ==
    (\A t \in Triggers : cl[t].err = NoError)
        => /\ Cardinality({t \in Triggers : cl[t].frames # << >>}) <= 1
           /\ Cardinality({t \in Triggers : Released(t)}) <= 1

\* C13: once every call of close() has ended, the port is released, also
\* when the write of a stop frame failed.
C13_PortReleased ==
    (\A t \in Triggers : Finished(t)) => ~port_open

\* C14: a call of close() that reached the release of the port has written,
\* with safe_close, exactly the 24 frames SET_TARGET 0 for channels 0 .. 23 in
\* that order, whatever the ranges, and without safe_close no frame; the
\* frames a call has written are always the first frames of that pass, and
\* the port is open as long as a call is still writing them.
C14_StopAllThenRelease ==
    \A t \in Triggers :
        /\ Released(t) => cl[t].frames = IF safe_close THEN StopFrames ELSE << >>
        /\ Len(cl[t].frames) <= NumChannels
        /\ cl[t].frames = SubSeq(StopFrames, 1, Len(cl[t].frames))
        /\ ~safe_close => cl[t].frames = << >>
        /\ cl[t].pc = "stop" => port_open

C14_Witness ==
    /\ safe_close
    /\ Truthy(min_targets_us[0])
    /\ ~port_open
    /\ \E t \in Triggers : cl[t].pc = "done" /\ Len(cl[t].frames) = NumChannels

\* a & b and a | b of two naturals, bit by bit
RECURSIVE BitAnd(_, _)
BitAnd(a, b) ==
    IF a = 0 \/ b = 0 THEN 0
    ELSE (a % 2) * (b % 2) + 2 * BitAnd(a \div 2, b \div 2)

RECURSIVE BitOr(_, _)
BitOr(a, b) ==
    IF a = 0 THEN b
    ELSE IF b = 0 THEN a
    ELSE (IF a % 2 = 1 \/ b % 2 = 1 THEN 1 ELSE 0) + 2 * BitOr(a \div 2, b \div 2)

\* C15: for every v in 0 .. 16383 the encoding succeeds with lsb = v & 0x7F
\* and msb = (v >> 7) & 0x7F, both in 0 .. 127, and (msb << 7) | lsb is v.
C15_CodecRoundTrip ==
    (res # [err |-> NoError, value |-> << >>] /\ Encodable(arg))
        => /\ res.err = NoError
           /\ res.value[1] = BitAnd(arg, 127)
           /\ res.value[2] = BitAnd(arg \div (2 ^ 7), 127)
           /\ res.value[1] \in 0 .. 127
           /\ res.value[2] \in 0 .. 127
           /\ BitOr(res.value[2] * (2 ^ 7), res.value[1]) = arg

C15_Witness == arg = 300 /\ res = [err |-> NoError, value |-> <<44, 2>>]

\* C16: a command whose value to encode lies outside 0 .. 16383 fails with
\* the assertion of _get_lsb_msb, writes no byte, and leaves every channel's
\* recorded target and limits as they were before the call.
C16_RejectedWithoutEffect ==
    /\ (call.op \in {"set_target", "set_target_us"} /\ ~Encodable(Requested))
           => err = "AssertionError"
    /\ err = "AssertionError" => (out = << >> /\ Snapshot = pre)

\* C17: set_range and set_target called with a channel outside 0 .. 23 fail
\* with an error, write no byte, and change no channel's limits or recorded
\* target.
C17_InvalidChannelRejected ==
    (call.op \in {"set_range", "set_target"} /\ call.channel \notin Channels)
        => (err # NoError /\ out = << >> /\ Snapshot = pre)

\* C18: in every reachable state, every channel with both limits set has
\* its min limit at or below its max limit.
C18_LimitsOrdered ==
    \A c \in Channels :
        (Truthy(min_targets_us[c]) /\ Truthy(max_targets_us[c]))
            => min_targets_us[c][1] <= max_targets_us[c][1]

\* the limits of the channel of the last call, and whether they are stored
\* in reverse order
Lo == min_targets_us[call.channel]
Hi == max_targets_us[call.channel]
Reversed == Lo # None /\ Hi # None /\ Lo[1] > Hi[1]

\* C19 (as claimed): with every limit that is a number, 0 included, taken as
\* set, the target a single-channel target call resolves to is min when the
\* request is below a set min, max when it is above a set max, and the request
\* otherwise; the stored limits are not modified. Stated of the calls that
\* return normally.
C19_ResolutionAsClaimed ==
    (call.op \in TargetOps /\ err = NoError /\ ~Reversed)
        => LET req == Requested * QTicks
           IN  /\ targets_us[call.channel] =
                      IF Lo # None /\ req < Lo[1] THEN Lo[1]
                      ELSE IF Hi # None /\ req > Hi[1] THEN Hi[1]
                      ELSE req
               /\ min_targets_us = pre.lo
               /\ max_targets_us = pre.hi

\* C19 (amended): a limit is set when it is neither None nor 0; the request
\* is first raised to a set min when below it, the result is then lowered to
\* a set max when above it (so limits stored in reverse order resolve to max),
\* and the stored limits are not modified.
C19_Resolution ==
    call.op \in TargetOps
        => LET req == Requested * QTicks
               raised == IF Lo # None /\ Lo[1] # 0 /\ req < Lo[1] THEN Lo[1] ELSE req
           IN  /\ targets_us[call.channel] =
                      IF Hi # None /\ Hi[1] # 0 /\ raised > Hi[1] THEN Hi[1]
                      ELSE raised
               /\ min_targets_us = pre.lo
               /\ max_targets_us = pre.hi

C19_Witness ==
    /\ call.op = "set_target"
    /\ Lo = Some(0)
    /\ Requested < 0
    /\ targets_us[call.channel] = Requested * QTicks

\* C20: a channel to which no target command has been sent reports a last
\* target different from the one a stopped channel reports.
C20_NeverCommandedDistinct ==
    \A c, d \in Channels :
        (last_sent[c] = None /\ last_sent[d] = Some(0))
            => targets_us[c] # targets_us[d]

\* the position a completed position query of the last call read back, in ticks
ReadBack == (call.resp[2] * 256 + call.resp[1]) * QTicks

\* C21: is_moving(c) returns true exactly when the recorded target of c is
\* not 0 and differs from the position read back by more than 0.01 us; it
\* returns false when the two are equal, and a false value for a channel whose
\* recorded target is 0.
C21_MovingWhenOffTarget ==
    (call.op = "is_moving" /\ err = NoError /\ last_sent[call.channel] # None)
        => LET target_us == targets_us[call.channel]
               diff == target_us - ReadBack
           IN  IF target_us = 0 THEN ret = Some(0)
               ELSE ret = Some((IF diff < 0 THEN -diff ELSE diff) * 100 > US)

\* C22: get_position(c), answered with two bytes, writes the one frame
\* [0xAA, device, 0x10, c], reads twice, and returns (msb << 8) | lsb with the
\* first byte read as lsb; get_position_us(c) returns a quarter of that value.
C22_PositionByteAligned ==
    (call.op \in {"get_position", "get_position_us"} /\ Len(call.resp) = 2)
        => /\ err = NoError
           /\ out = <<pololu_cmd \o <<GET_POSITION, call.chan>>>>
           /\ reads = 2
           /\ ret = Some((call.resp[2] * (2 ^ 8) + call.resp[1])
                         * (IF call.op = "get_position" THEN 1 ELSE QTicks))

\* the answer 200, 1 reads as 456, where (1 << 7) | 200 would be 200
C22_Witness ==
    /\ call.op = "get_position"
    /\ call.resp = <<200, 1>>
    /\ ret = Some(456)

\* the opcodes of SerialCommands
Opcodes ==
    {SET_TARGET, SET_SPEED, SET_ACCELERATION, GET_POSITION, GET_ERRORS, GO_HOME,
     STOP_SCRIPT, RESTART_SCRIPT_AT_SUBROUTINE,
     RESTART_SCRIPT_AT_SUBROUTINE_WITH_PARAMETER, GET_SCRIPT_STATUS, SET_PWM,
     GET_MOVING_STATE, SET_MULTIPLE_TARGETS}

\* the positions in frame f of the bytes that come from _get_lsb_msb
CodecBytes(f) ==
    IF f[3] \in {SET_TARGET, SET_SPEED, SET_ACCELERATION,
                 RESTART_SCRIPT_AT_SUBROUTINE_WITH_PARAMETER} THEN {5, 6}
    ELSE IF f[3] = SET_PWM THEN {4, 5, 6, 7}
    ELSE { }

\* C23: every write of an operation is one frame that starts with 0xAA and
\* the device number, followed by an opcode of the protocol, and every
\* payload byte that comes from the value codec is in 0 .. 127.
C23_FrameFormat ==
    \A i \in 1 .. Len(out) :
        LET f == out[i]
        IN  /\ Len(f) >= 3
            /\ f[1] = POLOLU_PROTOCOL
            /\ f[2] = DEFAULT_DEVICE_NUMBER
            /\ f[3] \in Opcodes
            /\ \A k \in CodecBytes(f) : k <= Len(f) /\ f[k] \in 0 .. 127
            /\ CodecBytes(f) # { } => Len(f) = 3 + Cardinality(CodecBytes(f))
                                               + (IF f[3] = SET_PWM THEN 0 ELSE 1)

\* set_pwm(10, 10): 480 is 96 + 3 * 128
C23_Witness ==
    /\ call.op = "set_pwm"
    /\ out = <<pololu_cmd \o <<SET_PWM, 96, 3, 96, 3>>>>

\* the operations that command no target
OtherOps ==
    QueryOps \cup {"is_moving", "set_speed", "set_acceleration", "go_home",
                   "stop_script", "set_pwm", "run_script_subroutine",
                   "run_script_subroutine_with_parameter"}

\* C24: set_speed, set_acceleration, go_home, stop_script, set_pwm,
\* run_script_subroutine and every query leave all recorded targets and all
\* limits as they were; set_range(c, ..) writes nothing, replaces the limits
\* of channel c only and leaves every recorded target as it was.
C24_ChannelStatePreserved ==
    /\ call.op \in OtherOps => Snapshot = pre
    /\ call.op = "set_range"
           => /\ out = << >>
              /\ targets_us = pre.targets
              /\ min_targets_us = [pre.lo EXCEPT ![call.channel] = call.min_us]
              /\ max_targets_us = [pre.hi EXCEPT ![call.channel] = call.max_us]

C24_Witness ==
    /\ call.op = "set_speed"
    /\ call.value = 0
    /\ Len(out) = 1
    /\ targets_us[call.channel] # 0

\* 48 times a time given in ticks of a sixteenth of a microsecond
Pwm48(us) == (PwmTicksPerUs * us) \div US

\* C25: on a controller that is not a Micro Maestro, set_pwm with 48 times
\* the on time and 48 times the period both in 0 .. 16383 writes, unless the
\* write fails, exactly the one frame [0xAA, device, 0x0A, on_lsb, on_msb,
\* period_lsb, period_msb] of the 7-bit halves of the two products.
C25_PwmFrame ==
    (/\ call.op = "set_pwm"
     /\ ~is_micro
     /\ Pwm48(call.on_time_us) \in 0 .. MaxValue
     /\ Pwm48(call.period_us) \in 0 .. MaxValue)
    => IF err = NoError
       THEN out = <<pololu_cmd \o
                    <<SET_PWM,
                      Pwm48(call.on_time_us) % 128, Pwm48(call.on_time_us) \div 128,
                      Pwm48(call.period_us) % 128, Pwm48(call.period_us) \div 128>>>>
       ELSE err = "SerialException" /\ out = << >>

C25_Witness ==
    /\ call.op = "set_pwm"
    /\ call.on_time_us = 0
    /\ call.period_us = 10 * US
    /\ out = <<pololu_cmd \o <<SET_PWM, 0, 0, 96, 3>>>>

\* C26: when a Relay has been finalized, its finalizer did not fail and the
\* GPIO cleanup has been performed, by close() or else by the finalizer.
C26_FinalizerCleansUp ==
    relay.finalized => (relay.err = NoError /\ relay.cleanups >= 1)

\* C27: every frame an operation has written has been flushed when the
\* operation ends, and a query has flushed its request before it reads.
C27_WriteThenFlush ==
    /\ flushes = Len(out)
    /\ reads > 0 => (Len(out) = 1 /\ flushes = 1)

C27_Witness ==
    /\ call.op = "get_position"
    /\ err = NoError
    /\ reads = 2
    /\ flushes = 1

\* the reads of the port a call of the last operation makes at most: two
\* single-byte reads for a position, one _read for the other queries
MaxReads ==
    IF call.op \in {"get_position", "get_position_us", "is_moving"} THEN 2
    ELSE IF call.op \in QueryOps THEN 1
    ELSE 0

\* C28: a call of a single-frame command or query writes its frame at most
\* once and reads at most one response; a failed write is raised to the caller
\* with nothing written or read, and a response that stays short is raised to
\* the caller with nothing written after the request.
C28_NoRetries ==
    call.op \in OtherOps \cup {"set_target_us"}
        => /\ Len(out) <= 1
           /\ reads <= MaxReads
           /\ err = "SerialException" => (out = << >> /\ reads = 0 /\ ret = None)
           /\ (/\ call.op \in QueryOps \cup {"is_moving"}
               /\ Len(out) = 1
               /\ Len(call.resp) < (IF MaxReads = 2 THEN 2 ELSE call.expect))
              => (err # NoError /\ ret = None)

C28_Witness ==
    /\ call.op = "get_errors"
    /\ err = "TimeoutError"
    /\ Len(out) = 1
    /\ reads = 1

\* the value commanded to each channel by the SET_TARGET frames in `frames`
Commanded(frames) == Sent([c \in Channels |-> None], frames)

\* C29: set_targets_us on a controller that is not a Micro Maestro commands
\* the same value to every channel of the mapping, and ends with the same
\* recorded targets, as the Micro Maestro variant does from the same channel
\* state with the same mapping (for some number of writes that succeed).
C29_VariantsAgree ==
    (/\ ~is_micro
     /\ call.op = "set_targets_us"
     /\ call.targets # << >>)
    => \E w \in 0 .. Len(call.targets) :
           LET micro == set_each_target_us([Begin(w) EXCEPT !.targets = pre.targets],
                                           call.targets)
           IN  /\ targets_us = micro.targets
               /\ \A c \in Keys(call.targets) :
                      Commanded(out)[c] = Commanded(micro.out)[c]

\* C30: a set_target, set_target_us, stop_channel or set_targets_us call made
\* after close() has completed, and refused by the closed port, has written no
\* frame and leaves every recorded target as it was.
C30_NoEffectAfterClose ==
    (/\ closed
     /\ call.op \in TargetOps \cup {"set_targets_us"}
     /\ err = "PortNotOpenError")
        => (out = << >> /\ targets_us = pre.targets)

\* the level that switches the relay of r on
ActiveLevel(r) == IF r.active_high THEN "HIGH" ELSE "LOW"

\* a Relay on which close() has not been called
NeverClosed(r) == r.made /\ r.cleanups = 0

\* C33: a Relay is inactive right after construction; as long as only on,
\* off, toggle and the two queries are called, self.active is true exactly
\* when the last level written to the pin is the active level, and is_active()
\* returns self.active; each toggle flips both the flag and the pin level, so
\* two toggles in a row restore them.
C33_RelayState ==
    /\ [](/\ relay.op = "__init__" => ~relay.active
          /\ NeverClosed(relay)
                 => /\ relay.level \in {"HIGH", "LOW"}
                    /\ relay.active <=> relay.level = ActiveLevel(relay)
          /\ relay.op = "is_active" => relay.ret = Some(relay.active))
    /\ [][(NeverClosed(relay) /\ relay'.op = "toggle")
              => /\ relay'.err = NoError
                 /\ relay'.active = ~relay.active
                 /\ relay'.level # relay.level]_vars

C33_Witness ==
    /\ relay.op = "toggle"
    /\ nops = 2
    /\ ~relay.active_high
    /\ relay.active
    /\ relay.level = "LOW"


\* ---- C31
\* the positions of the items that are no separators
Selectable(items) == {i \in 1..Len(items) : items[i] # None}

\* the first selectable position below index, or else the first of the menu
NextSelectable(items, index) ==
    LET below == {j \in Selectable(items) : j > index}
        from == IF below # {} THEN below ELSE Selectable(items)
    IN  CHOOSE j \in from : \A k \in from : j <= k

\* the last selectable position above index, or else the last of the menu
PrevSelectable(items, index) ==
    LET above == {j \in Selectable(items) : j < index}
        from == IF above # {} THEN above ELSE Selectable(items)
    IN  CHOOSE j \in from : \A k \in from : j >= k

\* the index after n runs of action_menu_down, none of which failed
RECURSIVE downs(_, _, _)
downs(items, index, n) ==
    IF n = 0 THEN index
    ELSE downs(items, action_menu_down(items, index).index, n - 1)

\* C31: on a loaded menu with at least one item that is no separator, and
\* from every index in 0..len(items), action_menu_down and action_menu_up
\* return without error with index on the next, respectively the previous,
\* item that is no separator, going round at the ends; as many runs of
\* action_menu_down as there are such items visit each of them, and one more
\* run is back on the first.  The runs the widget made ended that way.
C31_MenuNavigation ==
    LET items == menu.items
        n == Cardinality(Selectable(items))
    IN  (menu.menuname # None /\ Selectable(items) # {})
            => /\ \A i \in 0..Len(items) :
                      LET d == action_menu_down(items, i)
                          u == action_menu_up(items, i)
                      IN  /\ d.err = NoError
                          /\ d.index \in Selectable(items)
                          /\ d.index = NextSelectable(items, i)
                          /\ u.err = NoError
                          /\ u.index \in Selectable(items)
                          /\ u.index = PrevSelectable(items, i)
               /\ {downs(items, 0, k) : k \in 1..n} = Selectable(items)
               /\ downs(items, 0, n + 1) = downs(items, 0, 1)
               /\ menu.op = "menu_down"
                      => /\ menu.err = NoError
                         /\ menu.index = NextSelectable(items, menu.pre_index)
               /\ menu.op = "menu_up"
                      => /\ menu.err = NoError
                         /\ menu.index = PrevSelectable(items, menu.pre_index)

\* action_menu_down from the one item of a menu with a separator on each
\* side: over the last separator, round the end, over the first, back on it
C31_Witness ==
    /\ menu.menuname = Some("framed")
    /\ menu.op = "menu_down"
    /\ menu.err = NoError
    /\ menu.pre_index = 2
    /\ menu.index = 2


\* ---- C32
\* the keys the Menu widget answers to: those bound on the widget itself,
\* where _bind_current_menu puts the hotkeys, and those of the app
KeyBindings(m) == [widget |-> m.bindings, app |-> m.app_bindings]

\* C32: a menu_backout that closes a menu opened over another menu brings
\* back the menu name, the items, the title and the key bindings that were
\* current when the closed menu was loaded.
C32_BackoutRestores ==
    [][(/\ menu'.op = "menu_backout"
        /\ menu'.err = NoError
        /\ menu'.menuname # None)
           => LET saved == menu.stack[Len(menu.stack)]
                  bound == menu.bound_at_load[Len(menu.bound_at_load)]
              IN  /\ menu'.menuname = saved.menuname
                  /\ menu'.items = saved.items
                  /\ menu'.title = saved.title
                  /\ KeyBindings(menu') = [widget |-> bound, app |-> saved.bindings]]_vars
====
